---- MODULE Spec2Model ----
(***************************************************************************)
(* Model of the research pipeline of src/backend.py:                       *)
(*   GeminiService.generate_search_queries        (lines 318-349)          *)
(*   GeminiService.synthesize_research_response   (lines 351-382)          *)
(*   SearchService.search                         (lines 393-425)          *)
(*   ResearchAgent.research_query                 (lines 438-475)          *)
(*                                                                         *)
(* Python values are tagged records (field t).  A str is the sequence of   *)
(* its characters (or opaque text chunks), a list the sequence of its      *)
(* items, a dict a function from its keys.  The text of a language-model   *)
(* reply is a sequence of lexical tokens: whitespace, the code fence, the  *)
(* word json, a JSON document, other words.                                *)
(***************************************************************************)
EXTENDS Integers, Sequences, FiniteSets, TLC

VARIABLES
    pc,                \* position of research_query
    stages,            \* the pipeline stages entered so far, in order
    user_query,        \* the argument of research_query
    expand_reply,      \* what generate_content did for the expansion prompt
    search_queries,    \* research_query's local search_queries
    qi,                \* index of the loop for query in search_queries
    inflight,          \* indices of the search calls issued and not yet returned
    provider_response, \* what the provider did for the most recent search call
    per_query,         \* what self.search.search returned, one entry per call
    all_results,       \* research_query's local all_results
    unique_results,    \* research_query's local unique_results
    synth_calls,       \* the result lists handed to synthesize_research_response
    synth_reply,       \* what generate_content did for the synthesis prompt
    outcome            \* the value research_query returned

vars == <<pc, stages, user_query, expand_reply, search_queries, qi, inflight,
          provider_response, per_query, all_results, unique_results,
          synth_calls, synth_reply,
          outcome>>

----------------------------------------------------------------------------
(* Bounds of the model and constants of the program *)

MaxReplyItems == 6      \* longest list / bare string a reply decodes to
MaxQueries == 5         \* queries[:5]
MaxSources == 15        \* unique_results[:15]
MaxPromptSources == 10  \* search_results[:10]
NumResults == 8         \* search(query, num_results=8)

Min(a, b) == IF a < b THEN a ELSE b

Take(s, n) == SubSeq(s, 1, Min(n, Len(s)))

----------------------------------------------------------------------------
(* Python values *)

Str(cs) == [t |-> "str", s |-> cs]
List(xs) == [t |-> "list", items |-> xs]
Dict(f) == [t |-> "dict", kv |-> f]
PyNone == [t |-> "none"]
PyNum == [t |-> "num"]
EmptyStr == Str(<< >>)

\* bool(v)
Truthy(v) ==
    CASE v.t = "str" -> v.s # << >>
      [] v.t = "list" -> v.items # << >>
      [] v.t = "dict" -> DOMAIN v.kv # {}
      [] v.t = "none" -> FALSE
      [] OTHER -> TRUE

\* hash(v) succeeds
Hashable(v) == v.t \notin {"list", "dict"}

\* d.get(k, default) on a dict
Get(d, k, default) == IF k \in DOMAIN d.kv THEN d.kv[k] ELSE default

Letters == <<"a", "b", "c", "d", "e", "f", "g", "h", "i", "j", "k", "l",
             "m", "n", "o", "p", "q", "r", "s", "t", "u", "v", "w", "x">>

----------------------------------------------------------------------------
(* Text of a language-model reply *)

WS == [c |-> "ws"]
FENCE == [c |-> "fence"]             \* three backquotes
JSONWORD == [c |-> "json"]
Doc(v) == [c |-> "doc", v |-> v]      \* the text of a JSON document decoding to v
Word(w) == [c |-> "word", w |-> w]    \* any other text (not JSON)

RECURSIVE lstrip(_)
lstrip(text) ==
    IF text # << >> /\ Head(text) = WS THEN lstrip(Tail(text)) ELSE text

RECURSIVE rstrip(_)
rstrip(text) ==
    IF text # << >> /\ text[Len(text)] = WS
    THEN rstrip(SubSeq(text, 1, Len(text) - 1))
    ELSE text

\* str.strip()
strip(text) == rstrip(lstrip(text))

\* str.startswith(tok)
startswith(text, tok) == text # << >> /\ Head(text) = tok

\* queries_text.split(fence)[1], for a text that starts with the fence
SplitFence1(text) ==
    LET rest == Tail(text)
        closing == {i \in 1..Len(rest) : rest[i] = FENCE}
    IN  IF closing = {} THEN rest
        ELSE SubSeq(rest, 1, (CHOOSE i \in closing : \A j \in closing : i <= j) - 1)

\* lines 339-343: the text handed to json.loads
ExtractJsonText(text) ==
    LET queries_text == strip(text)
    IN  IF startswith(queries_text, FENCE)
        THEN LET inner == strip(SplitFence1(queries_text))
             IN  IF startswith(inner, JSONWORD) THEN strip(Tail(inner)) ELSE inner
        ELSE queries_text

Raised == [ok |-> FALSE]
Returned(v) == [ok |-> TRUE, v |-> v]

\* json.loads(text): whitespace around the document is allowed, nothing else
json_loads(text) ==
    LET body == strip(text)
    IN  IF Len(body) = 1 /\ body[1].c = "doc" THEN Returned(body[1].v) ELSE Raised

\* v[:n]; TypeError/KeyError on a value that is neither a str nor a list
Slice(v, n) ==
    CASE v.t = "str" -> Returned(Str(Take(v.s, n)))
      [] v.t = "list" -> Returned(List(Take(v.items, n)))
      [] OTHER -> Raised

\* the elements (for x in v) visits, for a str or a list
Iterate(v) ==
    IF v.t = "str" THEN [i \in 1..Len(v.s) |-> Str(<<v.s[i]>>)] ELSE v.items

\* a generate_content call: it raises, or returns a response with some text
LLMRaises == [raises |-> TRUE]
LLMText(text) == [raises |-> FALSE, text |-> text]

\* generate_search_queries whose except branch returns no query at all
generate_search_queries_EmptyFallback(q, llm) ==
    IF llm.raises THEN List(<< >>)
    ELSE LET queries == json_loads(ExtractJsonText(llm.text))
         IN  IF ~queries.ok THEN List(<< >>)
             ELSE LET sliced == Slice(queries.v, MaxQueries)
                  IN  IF sliced.ok THEN sliced.v ELSE List(<< >>)

\* GeminiService.generate_search_queries
generate_search_queries(q, llm) ==
    IF llm.raises THEN List(<<q>>)
    ELSE LET queries == json_loads(ExtractJsonText(llm.text))
         IN  IF ~queries.ok THEN List(<<q>>)
             ELSE LET sliced == Slice(queries.v, MaxQueries)
                  IN  IF sliced.ok THEN sliced.v ELSE List(<<q>>)

\* the str a reply text is
TextToStr(text) ==
    Str([i \in 1..Len(text) |->
            CASE text[i].c = "ws" -> " "
              [] text[i].c = "word" -> text[i].w
              [] text[i].c = "doc" -> "<json>"
              [] OTHER -> text[i].c])

FallbackText(q) ==
    Str(<<"I found several relevant sources for your query about '">> \o q.s
        \o <<"'. Please review the sources below for detailed information.">>)

\* the sources enumerated in the synthesis prompt
PromptSources(search_results) == Take(search_results, MaxPromptSources)

\* GeminiService.synthesize_research_response
synthesize_research_response(q, search_results, llm) ==
    IF llm.raises THEN FallbackText(q) ELSE TextToStr(strip(llm.text))

----------------------------------------------------------------------------
(* The search provider and SearchService.search *)

\* requests.get / raise_for_status / response.json() raises, or yields data
ProviderRaises == [kind |-> "raise"]
ProviderJson(data) == [kind |-> "json", data |-> data]

Text(chunk) == Str(<<chunk>>)

\* a full page: NumResults entries; page k+1 starts with the last link of page k
FullPage(k) ==
    [i \in 1..NumResults |->
        Dict([title |-> Text("T"), link |-> Text(Letters[(NumResults - 1) * k + i]),
              snippet |-> Text("S"), displayed_link |-> Text("site"),
              date |-> Text("2024")])]

MixedPage1 ==
    << Dict([title |-> Text("T1"), link |-> Text("a"), snippet |-> Text("S1")]),
       Dict([title |-> Text("T2"), link |-> Text("a"), snippet |-> Text("S2")]),
       Dict([title |-> PyNone, link |-> EmptyStr, snippet |-> PyNone]),
       Dict([displayed_link |-> Text("site")]) >>

MixedPage2 ==
    << Dict([title |-> Text("T3"), link |-> PyNone]),
       Dict([title |-> Text("T4"), link |-> Text("x")]),
       Dict([title |-> PyNone, link |-> Text("a"), snippet |-> PyNone]) >>

UnhashablePage ==
    << Dict([title |-> Text("T5"), link |-> List(<<Text("a")>>),
             snippet |-> Text("S5")]) >>

\* more entries than were asked for, with more than MaxSources distinct links
OverfullPage == FullPage(0) \o FullPage(1) \o MixedPage2

Organic(entries) == ProviderJson(Dict([organic_results |-> List(entries)]))

ProviderResponses ==
    { ProviderRaises,
      ProviderJson(List(<< >>)),
      ProviderJson(Dict(<< >>)),
      ProviderJson(Dict([organic_results |-> PyNone])),
      Organic(<<MixedPage1[1], Text("junk")>>),
      Organic(MixedPage1), Organic(MixedPage2), Organic(UnhashablePage),
      Organic(OverfullPage) }

\* the loop (for result in organic_results) raises: not iterable, or an
\* element without .get
OrganicLoopRaises(organic_results) ==
    CASE organic_results.t = "list" ->
            \E i \in 1..Len(organic_results.items) :
                organic_results.items[i].t # "dict"
      [] organic_results.t = "str" -> organic_results.s # << >>
      [] organic_results.t = "dict" -> DOMAIN organic_results.kv # {}
      [] OTHER -> TRUE

\* lines 413-419: the dict appended for one organic entry
SearchResult(result) ==
    [title |-> Get(result, "title", Text("No Title")),
     link |-> Get(result, "link", EmptyStr),
     snippet |-> Get(result, "snippet", Text("No description available")),
     source |-> Get(result, "displayed_link", EmptyStr),
     date |-> Get(result, "date", EmptyStr)]

\* SearchService.search: failed = the except branch was taken
search(resp) ==
    IF resp.kind = "raise" \/ resp.data.t # "dict"
    THEN [failed |-> TRUE, results |-> << >>]
    ELSE LET organic_results == Get(resp.data, "organic_results", List(<< >>))
         IN  IF OrganicLoopRaises(organic_results)
             THEN [failed |-> TRUE, results |-> << >>]
             ELSE IF organic_results.t # "list"
             THEN [failed |-> FALSE, results |-> << >>]
             ELSE [failed |-> FALSE,
                   results |-> [i \in 1..Len(organic_results.items) |->
                                   SearchResult(organic_results.items[i])]]

----------------------------------------------------------------------------
(* ResearchAgent.research_query *)

\* line 454 without the test that the link is non-empty
IsNewLink_NoEmptyTest(result, seen_urls) ==
    result.link \notin seen_urls

\* line 454: the condition under which a result is appended
IsNewLink(result, seen_urls) ==
    result.link \notin seen_urls /\ Truthy(result.link)

\* lines 451-456
RECURSIVE RemoveDuplicates(_, _, _)
RemoveDuplicates(results, unique, seen_urls) ==
    IF results = << >> THEN unique
    ELSE LET result == Head(results)
         IN  IF IsNewLink(result, seen_urls)
             THEN RemoveDuplicates(Tail(results), Append(unique, result),
                                   seen_urls \cup {result.link})
             ELSE RemoveDuplicates(Tail(results), unique, seen_urls)

\* line 454: (result['link'] not in seen_urls) hashes the link: TypeError
DedupRaises(results) ==
    \E i \in 1..Len(results) : ~Hashable(results[i].link)

\* line 459
LimitResults(results) == Take(results, MaxSources)

Unset == [t |-> "unset"]

\* lines 470-475
ErrorOutcome(q, e) ==
    [response |-> Str(<<"I apologize, but I encountered an error while researching your query: ",
                       e, ". Please try again or rephrase your question.">>),
     sources |-> << >>,
     search_queries_used |-> List(<<q>>)]

UserQueries == {Text("q"), Str(<<"c", "p">>)}

StrOfLen(n) == Str([i \in 1..n |-> Letters[i]])
ListOfLen(n) == List([i \in 1..n |-> Text(Letters[i])])

\* the values the expansion reply may decode to
ReplyDocs ==
    {ListOfLen(n) : n \in 0..MaxReplyItems}
    \cup {StrOfLen(2), StrOfLen(MaxReplyItems), PyNum, PyNone, Dict(<< >>),
          List(<<Text("a"), PyNum>>)}

ExpansionReplies ==
    {LLMRaises}
    \cup {LLMText(<<Doc(d)>>) : d \in ReplyDocs}
    \cup {LLMText(t) : t \in
            { << >>, <<WS>>, <<FENCE>>, <<Word("Sure")>>,
              <<Word("Here:"), WS, Doc(ListOfLen(2))>>,
              <<JSONWORD, WS, Doc(ListOfLen(2))>>,
              <<WS, Doc(ListOfLen(2)), WS>>,
              <<FENCE, JSONWORD, WS, Doc(ListOfLen(2)), WS, FENCE>>,
              <<WS, FENCE, WS, Doc(ListOfLen(3)), FENCE, WS>>,
              <<FENCE, JSONWORD, Doc(ListOfLen(0))>>,
              <<FENCE, Word("python"), WS, Doc(ListOfLen(2)), WS, FENCE>>,
              <<FENCE, JSONWORD, WS, Doc(StrOfLen(2)), WS, FENCE, WS, Word("Enjoy")>> }}

SynthesisReplies ==
    { LLMRaises, LLMText(<< >>), LLMText(<<WS>>),
      LLMText(<<WS, Word("Answer"), WS, Word("text"), WS>>) }

Init ==
    /\ pc = "Expanding"
    /\ stages = <<"Expanding">>
    /\ user_query \in UserQueries
    /\ expand_reply = Unset
    /\ search_queries = Unset
    /\ qi = 1
    /\ inflight = {}
    /\ provider_response = Unset
    /\ per_query = << >>
    /\ all_results = << >>
    /\ unique_results = << >>
    /\ synth_calls = << >>
    /\ synth_reply = Unset
    /\ outcome = Unset

\* line 442
Expand(llm) ==
    /\ pc = "Expanding"
    /\ expand_reply' = llm
    /\ search_queries' = generate_search_queries(user_query, llm)
    /\ pc' = "Searching"
    /\ stages' = Append(stages, "Searching")
    /\ UNCHANGED <<user_query, qi, inflight, provider_response, per_query,
                   all_results, unique_results, synth_calls, synth_reply, outcome>>

NumQueries == Len(Iterate(search_queries))

\* line 447 with the calls submitted to a pool: a call is issued while
\* another is still in flight
SearchCall_Pooled ==
    /\ pc = "Searching"
    /\ \E i \in qi..NumQueries :
           /\ i \notin inflight
           /\ inflight' = inflight \cup {i}
    /\ UNCHANGED <<pc, stages, user_query, expand_reply, search_queries, qi,
                   provider_response, per_query, all_results, unique_results,
                   synth_calls, synth_reply, outcome>>

\* line 447: the call is issued; the loop waits for it to return
SearchCall ==
    /\ pc = "Searching"
    /\ qi <= NumQueries
    /\ inflight = {}
    /\ inflight' = {qi}
    /\ UNCHANGED <<pc, stages, user_query, expand_reply, search_queries, qi,
                   provider_response, per_query, all_results, unique_results,
                   synth_calls, synth_reply, outcome>>

\* lines 447-448: the call returns and its results are appended
SearchReturn(resp) ==
    /\ pc = "Searching"
    /\ qi \in inflight
    /\ LET r == search(resp)
       IN  /\ per_query' = Append(per_query, r)
           /\ all_results' = all_results \o r.results
    /\ provider_response' = resp
    /\ inflight' = inflight \ {qi}
    /\ qi' = qi + 1
    /\ UNCHANGED <<pc, stages, user_query, expand_reply, search_queries,
                   unique_results, synth_calls, synth_reply, outcome>>

\* lines 450-459, and the outer except when the loop raises
MergeResults ==
    /\ pc = "Searching"
    /\ qi > NumQueries
    /\ inflight = {}
    /\ IF DedupRaises(all_results)
       THEN /\ pc' = "Failed"
            /\ stages' = Append(stages, "Failed")
            /\ outcome' = ErrorOutcome(user_query, "unhashable type: 'list'")
            /\ UNCHANGED unique_results
       ELSE /\ pc' = "Synthesizing"
            /\ stages' = Append(stages, "Synthesizing")
            /\ unique_results' =
                   LimitResults(RemoveDuplicates(all_results, << >>, {}))
            /\ UNCHANGED outcome
    /\ UNCHANGED <<user_query, expand_reply, search_queries, qi, inflight,
                   provider_response, per_query, all_results, synth_calls,
                   synth_reply>>

\* lines 462-468
Synthesize(llm) ==
    /\ pc = "Synthesizing"
    /\ synth_reply' = llm
    /\ synth_calls' = Append(synth_calls,
                             [user_query |-> user_query,
                              search_results |-> unique_results,
                              prompt_sources |-> PromptSources(unique_results)])
    /\ outcome' = [response |-> synthesize_research_response(user_query,
                                                             unique_results, llm),
                   sources |-> unique_results,
                   search_queries_used |-> search_queries]
    /\ pc' = "Done"
    /\ stages' = Append(stages, "Done")
    /\ UNCHANGED <<user_query, expand_reply, search_queries, qi, inflight,
                   provider_response, per_query, all_results, unique_results>>

Next ==
    \/ \E llm \in ExpansionReplies : Expand(llm)
    \/ SearchCall
    \/ \E resp \in ProviderResponses : SearchReturn(resp)
    \/ MergeResults
    \/ \E llm \in SynthesisReplies : Synthesize(llm)

Spec == Init /\ [][Next]_vars

----------------------------------------------------------------------------
(* Reference definitions used by the properties *)

\* the per-query result lists, concatenated in the order of the queries
Concat(lists) ==
    LET F[k \in 0..Len(lists)] ==
            IF k = 0 THEN << >> ELSE F[k - 1] \o lists[k].results
    IN  F[Len(lists)]

EmptyLink(link) == link = EmptyStr \/ link = PyNone

\* each result kept only at the first occurrence of its link; empty links dropped
ReferenceMerge(results) ==
    LET Kept(i) == /\ ~EmptyLink(results[i].link)
                   /\ \A j \in 1..(i - 1) : results[j].link # results[i].link
        F[k \in 0..Len(results)] ==
            IF k = 0 THEN << >>
            ELSE IF Kept(k) THEN Append(F[k - 1], results[k]) ELSE F[k - 1]
    IN  F[Len(results)]

ReferenceSources == Take(ReferenceMerge(Concat(per_query)), MaxSources)

HasReturned == outcome # Unset

\* what the expansion reply decodes to, when generate_content returned
DecodedReply == json_loads(ExtractJsonText(expand_reply.text))

IsListOfStrings(v) ==
    v.t = "list" /\ \A i \in 1..Len(v.items) : v.items[i].t = "str"

JustUserQuery == List(<<user_query>>)

----------------------------------------------------------------------------
(* Properties *)

\* C1: research_query always returns an outcome, and in every outcome
\* 'response' is a non-empty string and 'search_queries_used' has at least
\* one entry.
C1_NonEmptyOutcome ==
    /\ pc \in {"Done", "Failed"} => HasReturned
    /\ HasReturned =>
           /\ outcome.response.t = "str" /\ outcome.response.s # << >>
           /\ Len(Iterate(outcome.search_queries_used)) >= 1

\* C2: the value generate_search_queries returns has between 1 and 5
\* entries, and it is exactly [user_query] when the reply decodes to an
\* empty list.
C2_OneToFiveQueries ==
    search_queries # Unset =>
        /\ NumQueries >= 1 /\ NumQueries <= MaxQueries
        /\ (/\ ~expand_reply.raises
            /\ DecodedReply.ok
            /\ DecodedReply.v = List(<< >>)) => search_queries = JustUserQuery

\* C3: when the reply fails to decode, or decodes to something that is not a
\* list of strings, generate_search_queries returns exactly [user_query];
\* then 'search_queries_used' is [user_query] and at most the one search for
\* user_query is issued.
C3_FallbackOnNonList ==
    (/\ expand_reply # Unset
     /\ ~expand_reply.raises
     /\ (~DecodedReply.ok \/ ~IsListOfStrings(DecodedReply.v))) =>
        /\ search_queries = JustUserQuery
        /\ Len(per_query) <= 1
        /\ pc = "Done" => outcome.search_queries_used = JustUserQuery

\* C4: whatever the capabilities do, the outer except branch is never taken:
\* the pipeline goes Expanding, Searching, Synthesizing, Done.
C4_NeverFailed ==
    /\ pc # "Failed"
    /\ HasReturned =>
           stages = <<"Expanding", "Searching", "Synthesizing", "Done">>

SomeSearchFailed == \E i \in 1..Len(per_query) : per_query[i].failed
SomeSearchSucceeded == \E i \in 1..Len(per_query) : ~per_query[i].failed

\* C5: when some searches fail and the others succeed, the failed ones
\* contribute nothing, every query is searched, and the outcome is a normal
\* one: the sources are the merged results of the surviving queries, the
\* synthesizer was invoked, and 'search_queries_used' is the expanded list.
C5_PartialFailureIsNormal ==
    (HasReturned /\ SomeSearchFailed /\ SomeSearchSucceeded) =>
        /\ Len(per_query) = NumQueries
        /\ \A i \in 1..Len(per_query) :
               per_query[i].failed => per_query[i].results = << >>
        /\ outcome.sources = ReferenceSources
        /\ Len(synth_calls) = 1
        /\ synth_calls[1].search_results = outcome.sources
        /\ outcome.search_queries_used = search_queries

\* C6: when generate_content raises both for the expansion and for the
\* synthesis, the outcome has search_queries_used = [q], the fallback text
\* with q in it as response, and the merged results of the single search
\* for q as sources.
C6_LanguageModelDown ==
    (HasReturned /\ expand_reply = LLMRaises /\ synth_reply = LLMRaises) =>
        /\ outcome.search_queries_used = JustUserQuery
        /\ outcome.response =
               Str(<<"I found several relevant sources for your query about '">>
                   \o user_query.s
                   \o <<"'. Please review the sources below for detailed information.">>)
        /\ Len(per_query) = 1
        /\ outcome.sources =
               Take(ReferenceMerge(per_query[1].results), MaxSources)

C6_Witness ==
    /\ pc = "Done"
    /\ expand_reply = LLMRaises
    /\ synth_reply = LLMRaises
    /\ Len(outcome.sources) = MaxSources
    /\ Len(ReferenceMerge(all_results)) > MaxSources

\* C7: the sources returned are the first 15 elements of the reference
\* merge of the per-query lists taken in query order.
C7_SourcesAreReferenceMerge ==
    HasReturned => outcome.sources = ReferenceSources

\* C8: in every outcome each source has a non-empty link and no two sources
\* share a link.
C8_UniqueNonEmptyLinks ==
    HasReturned =>
        \A i \in 1..Len(outcome.sources) :
            /\ ~EmptyLink(outcome.sources[i].link)
            /\ \A j \in 1..Len(outcome.sources) :
                   outcome.sources[i].link = outcome.sources[j].link => i = j

C8_Witness ==
    /\ pc = "Done"
    /\ Len(outcome.sources) >= 2
    /\ \E i \in 1..Len(all_results) : all_results[i].link = EmptyStr
    /\ \E i \in 1..Len(all_results) : all_results[i].link = PyNone
    /\ \E i, j \in 1..Len(all_results) :
           i < j /\ all_results[i].link = all_results[j].link
                 /\ ~EmptyLink(all_results[i].link)

LastEntries == provider_response.data.kv["organic_results"].items

\* C10: every organic entry yields a result whose title and snippet are not
\* null: the placeholder when the entry's field is missing or null, the
\* entry's value otherwise.
C10_PlaceholdersForMissing ==
    (/\ per_query # << >>
     /\ ~per_query[Len(per_query)].failed
     /\ per_query[Len(per_query)].results # << >>) =>
        \A i \in 1..Len(LastEntries) :
            LET entry == LastEntries[i]
                result == per_query[Len(per_query)].results[i]
                Absent(k) == k \notin DOMAIN entry.kv \/ entry.kv[k] = PyNone
            IN  /\ result.title # PyNone
                /\ result.snippet # PyNone
                /\ result.title =
                       IF Absent("title") THEN Text("No Title")
                       ELSE entry.kv["title"]
                /\ result.snippet =
                       IF Absent("snippet") THEN Text("No description available")
                       ELSE entry.kv["snippet"]

====
